---- MODULE Spec2Model ----
(***************************************************************************)
(* Model of the sandboxed-execution subsystem of AIGYM:                    *)
(*   - the Solution Runner API (src/src/solution_runner_api.py): the       *)
(*     tracker `active_solutions`, the POST /solutions handler, the        *)
(*     websocket status handler and the execute_solution task;             *)
(*   - the Judge side (src/src/simulation/judge_client.py and judge.py):   *)
(*     SolutionRunnerClient.run_solution / get_solution_result and the     *)
(*     part of Judge.evaluate_solution that consumes their results.        *)
(*                                                                         *)
(* The runner is one asyncio event loop.  Handlers interleave at their     *)
(* await points only.  execute_solution contains no await: its docker      *)
(* calls (containers.run, container.wait, container.logs,                  *)
(* container.remove) are synchronous, so from its first statement to its   *)
(* last the task owns the event loop thread (loop_owner) and no other      *)
(* handler of the runner can take a step.  The Judge is another process    *)
(* and keeps running meanwhile.                                            *)
(***************************************************************************)
EXTENDS Integers, Sequences, FiniteSets, TLC

\* ------------------------------------------------------------------ bounds
MaxSubmits == 2
MaxSubs == 1

\* The submission ids in play (the Judge uses str(episode_id)).
Ids == {"ep1", "ep2"}
TaskIds == 1..MaxSubmits
SubIds == 1..MaxSubs

\* ------------------------------------------------------------- data values
\* An optional dict key is a sequence of length <= 1: <<>> is "key absent".
None == <<>>
Some(v) == <<v>>

\* The status lists the runner's websocket loop treats as final (line 79).
TerminalStatuses == {"completed", "error", "timeout"}
IsTerminal(status) == status \in TerminalStatuses

\* What container.wait()/container.logs() can hand back on natural exit:
\* StatusCode, decoded logs, and the measured wall time in ms.
ContainerResults ==
    { [exit_code |-> 0, logs |-> "sorted", execution_time_ms |-> 50],
      [exit_code |-> 1, logs |-> "traceback", execution_time_ms |-> 700] }

\* Ways container.wait()/container.logs() can raise: the wait's timeout
\* (time_limit_sec exceeded) or any other fault; the value is str(e).
WaitFaults == {"read timed out", "docker fault"}
TimeoutFault == "read timed out"

\* A tracker entry / websocket snapshot.  "absent" stands for a key that is
\* not in active_solutions.
Absent ==
    [status |-> "absent", exit_code |-> None, logs |-> None,
     execution_time_ms |-> None, error |-> None]
NotFoundMsg == [Absent EXCEPT !.status = "not_found"]

\* The dict stored by run_solution (lines 44-48): a fresh dict with status
\* "running" and none of the outcome keys.  Its start_time and request keys
\* are read by execute_solution only and are not part of the state here.
NewRecord == [Absent EXCEPT !.status = "running"]

\* dict.update of lines 114-119: only the listed keys are written.
CompletedUpdate(rec, res) ==
    [rec EXCEPT !.status = "completed",
                !.exit_code = Some(res.exit_code),
                !.logs = Some(res.logs),
                !.execution_time_ms = Some(res.execution_time_ms)]

\* A variant of ErrorUpdate that records the message and leaves the status.
ErrorUpdateKeepsStatus(rec, msg) == [rec EXCEPT !.error = Some(msg)]

\* dict.update of lines 123-126 and 137-140.
ErrorUpdate(rec, msg) == [rec EXCEPT !.status = "error", !.error = Some(msg)]

\* The part of a record the spec calls the outcome.
Outcome(rec) ==
    [status |-> rec.status, exit_code |-> rec.exit_code, logs |-> rec.logs,
     execution_time_ms |-> rec.execution_time_ms, error |-> rec.error]

\* ------------------------------------------------------------------- state
VARIABLES
    active_solutions,   \* the runner's tracker: Ids -> record or Absent
    accepted,           \* per id, how many Submits were answered "accepted"
    tasks,              \* the execute_solution tasks created so far
    ntasks,             \* number of tasks created (= number of Submits)
    loop_owner,         \* 0, or the task that is blocking the event loop
    subs,               \* websocket handlers of the runner
    judge,              \* the Judge's evaluate_solution coroutine
    store               \* the episodes and feedback tables (db/core.py)

vars ==
    <<active_solutions, accepted, tasks, ntasks, loop_owner, subs, judge, store>>

NoTask ==
    [solution_id |-> "none", pc |-> "unborn", path |-> "none", created |-> FALSE,
     removes |-> 0, network |-> "no container"]
NoSub == [solution_id |-> "none", pc |-> "idle", emitted |-> <<>>, owner |-> "none"]
NoJudge ==
    [pc |-> "idle", id |-> "none", task |-> 0, sub |-> 0,
     run_result |-> Absent, solution_result |-> Absent, path |-> "none",
     task_id |-> "none", spec |-> None, ws |-> "none", result |-> None,
     raised |-> None, http |-> None, stored |-> "no",
     clock |-> 0, poll_interval |-> 0, waits |-> <<>>, stops |-> 0,
     stop_reply |-> Absent]

\* db/core.py lines 40-62: an episodes row (success, score, metrics are
\* nullable) and the feedback rows that reference it.  The episode of "ep1"
\* has been created by the CRUD layer, that of "ep2" has not.
NoRow == [exists |-> FALSE, result |-> None, feedback |-> <<>>]
InitialStore ==
    [i \in Ids |-> IF i = "ep1" THEN [NoRow EXCEPT !.exists = TRUE] ELSE NoRow]

Init ==
    /\ active_solutions = [i \in Ids |-> Absent]
    /\ accepted = [i \in Ids |-> 0]
    /\ tasks = [t \in TaskIds |-> NoTask]
    /\ ntasks = 0
    /\ loop_owner = 0
    /\ subs = [s \in SubIds |-> NoSub]
    /\ judge = NoJudge
    /\ store = InitialStore

LoopFree == loop_owner = 0

\* ------------------------------------------------------ POST /solutions
\* run_solution (lines 39-57): stores the record unconditionally, creates the
\* background task and answers "accepted".
SubmitRecord(old) == NewRecord

SubmitEffect(i) ==
    /\ LoopFree
    /\ ntasks < MaxSubmits
    /\ active_solutions' =
           [active_solutions EXCEPT ![i] = SubmitRecord(@)]
    /\ tasks' = [tasks EXCEPT ![ntasks + 1] =
                     [NoTask EXCEPT !.solution_id = i, !.pc = "scheduled"]]
    /\ ntasks' = ntasks + 1
    /\ accepted' = [accepted EXCEPT ![i] = @ + 1]
    /\ UNCHANGED loop_owner

SubmitReply(i) == [Absent EXCEPT !.status = "accepted"]

\* A Submit by any other client of the runner.
RunSolution(i) ==
    /\ SubmitEffect(i)
    /\ UNCHANGED <<subs, judge, store>>


\* ------------------------------------------------------ execute_solution
\* asyncio runs ready callbacks in the order they were registered: of the
\* tasks made by create_task (line 51) the oldest not yet run goes first.
NextToRun(t) ==
    /\ tasks[t].pc = "scheduled"
    /\ \A u \in TaskIds : u < t => tasks[u].pc # "scheduled"

\* judge_client.py lines 69-77: the body the client posts, of which the
\* keys that matter here.
PostedBody(i) == [solution_id |-> i, language |-> "python", network_disabled |-> TRUE]

\* SolutionRequest (lines 26-32) declares these fields; pydantic drops every
\* other key of the body, and request.dict() (line 47) is what is stored.
SolutionRequestFields ==
    {"code", "language", "memory_limit_mb", "time_limit_sec", "solution_id"}
ParseRequest(body) ==
    [k \in (DOMAIN body) \cap SolutionRequestFields |-> body[k]]

\* The keyword arguments of docker_client.containers.run, lines 101-106.
RunArguments(request) == [image |-> request.language, detach |-> TRUE]

\* docker: a container is attached to the default bridge network unless it
\* is run with network_disabled=True.
ContainerNetwork(arguments) ==
    IF "network_disabled" \in DOMAIN arguments /\ arguments.network_disabled
    THEN "none"
    ELSE "bridge"

\* Lines 97-106: look the record up and start the container.  From here on
\* the task holds the event loop until its last statement.
CreateContainer(t) ==
    /\ LoopFree
    /\ NextToRun(t)
    /\ tasks' = [tasks EXCEPT
                     ![t].pc = "waiting",
                     ![t].created = TRUE,
                     ![t].network =
                         ContainerNetwork(RunArguments(
                             ParseRequest(PostedBody(tasks[t].solution_id))))]
    /\ loop_owner' = t
    /\ UNCHANGED <<active_solutions, accepted, ntasks, subs, judge, store>>

\* Lines 101-106 raise (missing image, resource exhaustion): the outer
\* except of lines 135-140 records the error; no container exists.
CreateContainerFails(t) ==
    /\ LoopFree
    /\ NextToRun(t)
    /\ active_solutions' =
           [active_solutions EXCEPT ![tasks[t].solution_id] =
                ErrorUpdate(@, "docker fault")]
    /\ tasks' = [tasks EXCEPT ![t].pc = "done", ![t].path = "start_failed"]
    /\ UNCHANGED <<accepted, ntasks, loop_owner, subs, judge, store>>

\* The record written when container.wait returns in time (lines 110-119).
WaitReturnedWrite(rec, res) == CompletedUpdate(rec, res)

\* The record written when wait or logs raise, the time limit included
\* (lines 121-126): status "error" and str(e).
WaitRaisedWrite(rec, fault) == ErrorUpdate(rec, fault)

ContainerExits(t, res) ==
    /\ loop_owner = t
    /\ tasks[t].pc = "waiting"
    /\ active_solutions' =
           [active_solutions EXCEPT ![tasks[t].solution_id] =
                WaitReturnedWrite(@, res)]
    /\ tasks' = [tasks EXCEPT ![t].pc = "cleanup", ![t].path = "completed"]
    /\ UNCHANGED <<accepted, ntasks, loop_owner, subs, judge, store>>

ContainerWaitRaises(t, fault) ==
    /\ loop_owner = t
    /\ tasks[t].pc = "waiting"
    /\ active_solutions' =
           [active_solutions EXCEPT ![tasks[t].solution_id] =
                WaitRaisedWrite(@, fault)]
    /\ tasks' = [tasks EXCEPT
                     ![t].pc = "cleanup",
                     ![t].path = IF fault = TimeoutFault THEN "timeout"
                                 ELSE "fault"]
    /\ UNCHANGED <<accepted, ntasks, loop_owner, subs, judge, store>>

\* The finally block (lines 128-133): container.remove(force=True), its own
\* failure swallowed.  removes counts the invocations.
TeardownOnSuccessOnly(task) ==
    [task EXCEPT !.pc = "done",
                 !.removes = IF task.path = "completed" THEN @ + 1 ELSE @]

Teardown(task) == [task EXCEPT !.pc = "done", !.removes = @ + 1]

RemoveContainer(t) ==
    /\ loop_owner = t
    /\ tasks[t].pc = "cleanup"
    /\ tasks' = [tasks EXCEPT ![t] = Teardown(@)]
    /\ loop_owner' = 0
    /\ UNCHANGED <<active_solutions, accepted, ntasks, subs, judge, store>>

\* ------------------------------------------- websocket /ws/solutions/{id}
\* Line 62: await websocket.accept().
AcceptedSub(i, who) ==
    [NoSub EXCEPT !.solution_id = i, !.pc = "accepted", !.owner = who]

WsAccept(s, i) ==
    /\ LoopFree
    /\ subs[s].pc = "idle"
    /\ subs' = [subs EXCEPT ![s] = AcceptedSub(i, "env")]
    /\ UNCHANGED <<active_solutions, accepted, tasks, ntasks, loop_owner, judge, store>>

Emit(sub, msg, pc) == [sub EXCEPT !.emitted = Append(@, msg), !.pc = pc]

\* Lines 65-70: the initial status.
InitialSend(sub, rec) ==
    IF rec.status # "absent" THEN Emit(sub, rec, "loop")
    ELSE Emit(sub, NotFoundMsg, "closed")

WsSendInitial(s) ==
    /\ LoopFree
    /\ subs[s].pc = "accepted"
    /\ subs' = [subs EXCEPT
                    ![s] = InitialSend(@, active_solutions[subs[s].solution_id])]
    /\ UNCHANGED <<active_solutions, accepted, tasks, ntasks, loop_owner, judge, store>>

\* One pass of the while loop, lines 73-83.
\* A pass that finds the record non-terminal sleeps 100 ms (line 83) and
\* comes back to the top of the loop with nothing changed.
LoopPassNoBreak(sub, rec) ==
    IF rec.status = "absent" THEN Emit(sub, NotFoundMsg, "closed")
    ELSE IF IsTerminal(rec.status) THEN Emit(sub, rec, "loop")
    ELSE sub

LoopPass(sub, rec) ==
    IF rec.status = "absent" THEN Emit(sub, NotFoundMsg, "closed")
    ELSE IF IsTerminal(rec.status) THEN Emit(sub, rec, "closed")
    ELSE sub

WsCheck(s) ==
    /\ LoopFree
    /\ subs[s].pc = "loop"
    /\ subs' = [subs EXCEPT
                    ![s] = LoopPass(@, active_solutions[subs[s].solution_id])]
    /\ UNCHANGED <<active_solutions, accepted, tasks, ntasks, loop_owner, judge, store>>

\* Lines 85-92: the peer is gone, a send raises; the handler ends without
\* having emitted (the error message of line 90 cannot be delivered either).
WsSendFails(s) ==
    /\ LoopFree
    /\ \/ subs[s].pc = "accepted"
       \/ /\ subs[s].pc = "loop"
          /\ IsTerminal(active_solutions[subs[s].solution_id].status)
    /\ subs' = [subs EXCEPT ![s].pc = "aborted"]
    /\ UNCHANGED <<active_solutions, accepted, tasks, ntasks, loop_owner, judge, store>>


\* ------------------------------------------------------------- scoring
\* Numbers: a rubric weight and an item score are counted in tenths (weight
\* 6 is 0.6, score 7 is 0.7); the aggregate is the exact fraction num/den
\* with den > 0.  RubricItem.weight is a bare float (judge.py lines 35-38):
\* the loader accepts zero and negative weights.
Fraction(n, d) == [num |-> n, den |-> d]
Zero == Fraction(0, 1)

\* The keywords of _score_rubric_item that occur in the lowercased text of
\* a description (line 248).
WordsIn(description) ==
    CASE description = "Correct output" -> {"correct", "output"}
      [] description = "Time complexity" -> {"complexity"}
      [] description = "PEP8 style" -> {"style", "pep8"}
      [] description = "Correct style" -> {"correct", "style"}
      [] OTHER -> {}

CorrectnessWords == {"correct", "output"}
PerformanceWords == {"complexity", "performance"}
StyleWords == {"style", "pep8"}

\* The markers that occur in a log text: "sorted" as written (line 256),
\* "style error" in the lowercased text (line 274).
LogMarkers(logs) ==
    CASE logs = "sorted" -> {"sorted"}
      [] logs = "sorted; Style Error" -> {"sorted", "style error"}
      [] logs = "Style Error" -> {"style error"}
      [] OTHER -> {}

\* A variant of PerformanceScore whose buckets include their upper bounds.
PerformanceScoreInclusive(runtime_ms) ==
    IF runtime_ms <= 100 THEN 10
    ELSE IF runtime_ms <= 500 THEN 7
    ELSE IF runtime_ms <= 1000 THEN 4
    ELSE 1

\* judge.py lines 260-269.
PerformanceScore(runtime_ms) ==
    IF runtime_ms < 100 THEN 10
    ELSE IF runtime_ms < 500 THEN 7
    ELSE IF runtime_ms < 1000 THEN 4
    ELSE 1

\* A variant of ScoreRubricItem whose correctness check skips the exit code.
ScoreRubricItemIgnoringExit(item, logs, exit_code, runtime_ms) ==
    IF WordsIn(item.description) \cap CorrectnessWords # {} THEN
        IF "sorted" \in LogMarkers(logs) THEN 10 ELSE 0
    ELSE IF WordsIn(item.description) \cap PerformanceWords # {} THEN
        PerformanceScore(runtime_ms)
    ELSE IF WordsIn(item.description) \cap StyleWords # {} THEN
        IF "style error" \notin LogMarkers(logs) THEN 10 ELSE 5
    ELSE 5

\* judge.py lines 243-277.
ScoreRubricItem(item, logs, exit_code, runtime_ms) ==
    IF WordsIn(item.description) \cap CorrectnessWords # {} THEN
        IF exit_code # 0 THEN 0
        ELSE IF "sorted" \in LogMarkers(logs) THEN 10 ELSE 0
    ELSE IF WordsIn(item.description) \cap PerformanceWords # {} THEN
        PerformanceScore(runtime_ms)
    ELSE IF WordsIn(item.description) \cap StyleWords # {} THEN
        IF "style error" \notin LogMarkers(logs) THEN 10 ELSE 5
    ELSE 5

\* judge.py lines 279-288: the text is the template followed by the
\* description.
GenerateFeedback(item, score) ==
    IF score > 8 THEN <<"Excellent work on: ", item.description>>
    ELSE IF score > 6 THEN
        <<"Good job on: ", item.description, ", but room for improvement">>
    ELSE IF score > 3 THEN <<"Needs work on: ", item.description>>
    ELSE <<"Failed to meet criteria: ", item.description>>

\* A variant of RubricStep that forgets the weights.
RubricStepUnweighted(acc, item, logs, exit_code, runtime_ms) ==
    LET item_score == ScoreRubricItem(item, logs, exit_code, runtime_ms)
    IN  [total_score |-> acc.total_score + item_score,
         total_weight |-> acc.total_weight + 1,
         feedback |-> Append(acc.feedback,
                        [source |-> "judge",
                         rating |-> item_score,
                         rationale |-> GenerateFeedback(item, item_score),
                         rubric_section |-> item.description])]

\* A variant of RubricStep that puts the newest feedback item first.
RubricStepPrepending(acc, item, logs, exit_code, runtime_ms) ==
    LET item_score == ScoreRubricItem(item, logs, exit_code, runtime_ms)
    IN  [total_score |-> acc.total_score + item_score * item.weight,
         total_weight |-> acc.total_weight + item.weight,
         feedback |-> <<[source |-> "judge",
                         rating |-> item_score,
                         rationale |-> GenerateFeedback(item, item_score),
                         rubric_section |-> item.description]>>
                      \o acc.feedback]

\* One pass of the for loop of lines 222-233.
RubricStep(acc, item, logs, exit_code, runtime_ms) ==
    LET item_score == ScoreRubricItem(item, logs, exit_code, runtime_ms)
    IN  [total_score |-> acc.total_score + item_score * item.weight,
         total_weight |-> acc.total_weight + item.weight,
         feedback |-> Append(acc.feedback,
                        [source |-> "judge",
                         rating |-> item_score,
                         rationale |-> GenerateFeedback(item, item_score),
                         rubric_section |-> item.description])]

\* The loop over spec.rubric, items 1..k (lines 219-233).
RECURSIVE RubricLoop(_, _, _, _, _)
RubricLoop(rubric, k, logs, exit_code, runtime_ms) ==
    IF k = 0 THEN [total_score |-> 0, total_weight |-> 0, feedback |-> <<>>]
    ELSE RubricStep(RubricLoop(rubric, k - 1, logs, exit_code, runtime_ms),
                    rubric[k], logs, exit_code, runtime_ms)

\* judge.py line 236: total_score / total_weight if total_weight > 0 else 0.
FinalScore(total_score, total_weight) ==
    IF total_weight > 0 THEN Fraction(total_score, 10 * total_weight) ELSE Zero

\* A variant of Passes with a strict threshold.
PassesStrictly(score) == 10 * score.num > 6 * score.den

\* judge.py line 239: final_score >= 0.6.
Passes(score) == 10 * score.num >= 6 * score.den

Metrics(exit_code, metric_value, error) ==
    [exit_code |-> exit_code, metric_value |-> metric_value, error |-> error]

\* Judge._evaluate_solution (lines 212-241) and the JudgeResult of lines
\* 171-178; metrics holds 'exit_code' and spec.metric (lines 139, 143).
RubricResult(spec, logs, exit_code, runtime_ms) ==
    LET acc == RubricLoop(spec.rubric, Len(spec.rubric), logs, exit_code,
                          runtime_ms)
        final == FinalScore(acc.total_score, acc.total_weight)
    IN  [success |-> Passes(final),
         score |-> final,
         metrics |-> Metrics(Some(exit_code), Some(runtime_ms), None),
         feedback |-> acc.feedback]

\* The JudgeResult of lines 148-160 and of lines 188-200.
ErrorResult(message) ==
    [success |-> FALSE,
     score |-> Zero,
     metrics |-> Metrics(None, None, Some(message)),
     feedback |-> <<[source |-> "judge",
                     rating |-> 0,
                     rationale |-> <<"Execution error: ", message>>,
                     rubric_section |-> "execution"]>>]

\* dict.get(key, default) on a snapshot.
Get(field, default) == IF field = None THEN default ELSE field[1]

\* judge.py line 146: which snapshots short-circuit; all others are handed
\* to _evaluate_solution (lines 163-168).
ShortCircuitsOnErrorOnly(snapshot) == snapshot.status \in {"error"}

ShortCircuits(snapshot) == snapshot.status \in {"error", "timeout"}

\* judge.py lines 136-178: from the snapshot to the JudgeResult.  elapsed is
\* the Judge's own wall time, used when the snapshot has no
\* execution_time_ms (line 142).
Evaluate(spec, snapshot, elapsed) ==
    IF ShortCircuits(snapshot)
    THEN ErrorResult(Get(snapshot.error, "Unknown error"))
    ELSE RubricResult(spec, Get(snapshot.logs, ""), Get(snapshot.exit_code, -1),
                      Get(snapshot.execution_time_ms, elapsed))

\* judge.py line 134.
NoResultMsg == "Failed to get solution results"

\* judge.py lines 185-200: an exception inside the try block ends the
\* evaluation with the error result, which is returned and not stored.
CaughtException(j, message) ==
    [j EXCEPT !.result = Some(ErrorResult(message)), !.http = Some(200),
              !.path = "exception", !.pc = "done"]

\* --------------------------------------------------- the Judge (client)
\* SolutionRunnerClient.run_solution, lines 85-89: only a reply whose status
\* is "running" sends the client into _poll_solution_status; any other
\* reply is returned as it is.
ClientGoesPolling(reply) == reply.status = "running"

\* The dict of lines 92-96 / 127-131 built from a transport exception.
TransportError == [Absent EXCEPT !.status = "error", !.error = Some("transport")]

\* Judge.task_specs after _load_task_specs (judge.py lines 82-96): the task
\* ids that have a specification.  The rubric is the one of the sorting
\* task: correctness 0.6, time complexity 0.4.
task_specs ==
    [t \in {"sorting_001"} |->
        [time_limit_sec |-> 2,
         rubric |-> <<[description |-> "Correct output", weight |-> 6],
                      [description |-> "Time complexity", weight |-> 4]>>]]

\* The task ids a caller may name.
TaskNames == {"sorting_001", "unknown_001"}

\* self.task_specs.get(task_id), judge.py line 110.
Lookup(task_id) ==
    IF task_id \in DOMAIN task_specs THEN Some(task_specs[task_id]) ELSE None

\* judge.py line 112 and api/solutions.py lines 58-60.
NotFoundSpec == "Task specification not found"

\* A variant of UnknownTask that looks the task up after the POST.
UnknownTaskAfterSubmit(i, t) ==
    /\ judge.pc = "idle"
    /\ Lookup(t) = None
    /\ SubmitEffect(i)
    /\ judge' = [judge EXCEPT !.id = i, !.task_id = t, !.task = ntasks + 1,
                              !.raised = Some(NotFoundSpec),
                              !.http = Some(400), !.pc = "rejected"]
    /\ UNCHANGED <<subs, store>>

\* judge.py lines 110-112: no specification -> ValueError, raised before the
\* try block; api/solutions.py lines 58-60 turn it into HTTP 400.
UnknownTask(i, t) ==
    /\ judge.pc = "idle"
    /\ Lookup(t) = None
    /\ judge' = [judge EXCEPT !.id = i, !.task_id = t,
                              !.raised = Some(NotFoundSpec),
                              !.http = Some(400), !.pc = "rejected"]
    /\ UNCHANGED <<active_solutions, accepted, tasks, ntasks, loop_owner, subs, store>>

\* judge.py lines 110-129 with judge_client.py lines 79-89: the task has a
\* specification; the POST is handled by the runner and its reply comes
\* back.
JudgePost(i, t) ==
    /\ judge.pc = "idle"
    /\ Lookup(t) # None
    /\ SubmitEffect(i)
    /\ judge' = [judge EXCEPT
                     !.id = i,
                     !.task_id = t,
                     !.spec = Lookup(t),
                     !.task = ntasks + 1,
                     !.run_result = SubmitReply(i),
                     !.pc = IF ClientGoesPolling(SubmitReply(i)) THEN "polling"
                            ELSE "ran"]
    /\ UNCHANGED <<subs, store>>

\* judge_client.py lines 90-96: requests.post raised (connection refused,
\* 60 s timeout while the runner's loop is blocked); the runner saw nothing.
JudgePostFails(i, t) ==
    /\ judge.pc = "idle"
    /\ Lookup(t) # None
    /\ judge' = [judge EXCEPT !.id = i, !.task_id = t, !.spec = Lookup(t),
                              !.run_result = TransportError, !.pc = "ran"]
    /\ UNCHANGED <<active_solutions, accepted, tasks, ntasks, loop_owner, subs, store>>

\* ------------------------------------------------- the client's Stop
\* The routes the runner registers (solution_runner_api.py lines 34, 39, 59).
Routes ==
    {<<"GET", "/health">>, <<"POST", "/solutions">>,
     <<"WEBSOCKET", "/ws/solutions/{solution_id}">>}

\* What FastAPI answers to a request that matches no route.
NoRouteReply == [Absent EXCEPT !.status = "error", !.error = Some("404 Not Found")]

\* SolutionRunnerClient.stop_solution (judge_client.py lines 145-165): the
\* DELETE matches no route of the runner, raise_for_status raises on the 404
\* and the error dict is returned; while the runner's loop is held the
\* request times out, with the same kind of return.  The runner's state is
\* not touched.
StopSolution(i) ==
    /\ <<"DELETE", "/solutions/{solution_id}">> \notin Routes
    /\ judge' = [judge EXCEPT
                     !.stop_reply = IF LoopFree THEN NoRouteReply
                                    ELSE TransportError]
    /\ UNCHANGED <<active_solutions, accepted, tasks, ntasks, loop_owner, subs, store>>

\* ------------------------------------------- the Judge (client), poll mode
\* Times of the poll loop are counted in microseconds, in which every
\* interval of the backoff is a whole number.
Micros(sec) == sec * 1000000

\* judge_client.py line 110: poll_interval = 0.5
InitialPollInterval == Micros(1) \div 2

\* judge_client.py line 123: min(poll_interval * 1.5, 2.0)
NextPollInterval(poll_interval) ==
    IF (poll_interval * 3) \div 2 < Micros(2) THEN (poll_interval * 3) \div 2
    ELSE Micros(2)

\* judge_client.py line 112: the loop runs while less than timeout_sec + 5
\* seconds have passed.
PollDeadline(timeout_sec) == Micros(timeout_sec + 5)

\* How long one GET may take before it is answered (the request's own
\* timeout is 5 s, line 114).
Latencies == {0, Micros(1) \div 4, Micros(1)}

\* The bodies a status endpoint may answer with.
PollAnswers ==
    {[Absent EXCEPT !.status = "running"],
     [Absent EXCEPT !.status = "timeout"],
     [Absent EXCEPT !.status = "completed", !.exit_code = Some(0),
                    !.logs = Some("sorted"), !.execution_time_ms = Some(50)],
     [Absent EXCEPT !.status = "error", !.error = Some("docker fault")]}

\* judge_client.py line 119.
PollReturns(answer) == answer.status \in {"completed", "error"}

\* judge_client.py lines 139-143.
TimeoutResult == [Absent EXCEPT !.status = "timeout", !.error = Some("timed out")]

\* judge_client.py lines 85-87 and 109-110: the reply to the POST says
\* "running" (a runner other than this repository's, which says
\* "accepted"): the client enters _poll_solution_status.
PollStart(i, t) ==
    /\ judge.pc = "idle"
    /\ Lookup(t) # None
    /\ judge' = [judge EXCEPT !.id = i, !.task_id = t, !.spec = Lookup(t),
                              !.run_result = NewRecord,
                              !.clock = 0,
                              !.poll_interval = InitialPollInterval,
                              !.pc = "polling"]
    /\ UNCHANGED <<active_solutions, accepted, tasks, ntasks, loop_owner, subs, store>>

\* judge_client.py lines 112-120: a GET is answered with a body whose
\* status ends the loop.
PollGetsResult(answer, latency) ==
    /\ judge.pc = "polling"
    /\ judge.clock < PollDeadline(judge.spec[1].time_limit_sec)
    /\ PollReturns(answer)
    /\ judge' = [judge EXCEPT !.clock = @ + latency, !.run_result = answer,
                              !.pc = "ran"]
    /\ UNCHANGED <<active_solutions, accepted, tasks, ntasks, loop_owner, subs, store>>

\* judge_client.py lines 112-124: any other body; the interval is
\* multiplied first and slept second.
PollSleeps(answer, latency) ==
    /\ judge.pc = "polling"
    /\ judge.clock < PollDeadline(judge.spec[1].time_limit_sec)
    /\ ~PollReturns(answer)
    /\ LET interval == NextPollInterval(judge.poll_interval)
       IN  judge' = [judge EXCEPT !.poll_interval = interval,
                                  !.waits = Append(@, interval),
                                  !.clock = @ + latency + interval]
    /\ UNCHANGED <<active_solutions, accepted, tasks, ntasks, loop_owner, subs, store>>

\* judge_client.py lines 125-131: the GET raised (connection error, HTTP
\* error status, timeout): the error dict is returned at once.
PollFails(latency) ==
    /\ judge.pc = "polling"
    /\ judge.clock < PollDeadline(judge.spec[1].time_limit_sec)
    /\ judge' = [judge EXCEPT !.clock = @ + latency,
                              !.run_result = TransportError, !.pc = "ran"]
    /\ UNCHANGED <<active_solutions, accepted, tasks, ntasks, loop_owner, subs, store>>

\* judge_client.py lines 133-143: the loop ended; one DELETE is sent, its
\* failure ignored, and the timeout dict is returned.
PollTimesOut ==
    /\ judge.pc = "polling"
    /\ judge.clock >= PollDeadline(judge.spec[1].time_limit_sec)
    /\ judge' = [judge EXCEPT !.stops = @ + 1, !.run_result = TimeoutResult,
                              !.pc = "ran"]
    /\ UNCHANGED <<active_solutions, accepted, tasks, ntasks, loop_owner, subs, store>>

\* ---------------------------------------- the Judge (client), subscription
\* judge.py line 132 / judge_client.py line 178: the websocket is opened,
\* whatever run_solution returned.  The Judge connects only after its POST
\* was answered, and the task that POST created was registered with the
\* loop before the answer was sent: it runs before the new connection is
\* served.
OwnTaskHasRun ==
    judge.task # 0 => tasks[judge.task].pc \notin {"scheduled"}

JudgeWsConnect(s) ==
    /\ judge.pc = "ran"
    /\ LoopFree
    /\ OwnTaskHasRun
    /\ subs[s].pc = "idle"
    /\ subs' = [subs EXCEPT ![s] = AcceptedSub(judge.id, "judge")]
    /\ judge' = [judge EXCEPT !.sub = s, !.ws = "open", !.pc = "connected"]
    /\ UNCHANGED <<active_solutions, accepted, tasks, ntasks, loop_owner, store>>

\* judge_client.py lines 190-192 -> None; judge.py lines 133-134 raise and
\* lines 185-200 build the error result.
JudgeWsConnectFails ==
    /\ judge.pc = "ran"
    /\ judge' = CaughtException([judge EXCEPT !.ws = "unavailable"],
                                NoResultMsg)
    /\ UNCHANGED <<active_solutions, accepted, tasks, ntasks, loop_owner, subs, store>>

\* judge_client.py lines 181-182: the first message received is the result.
ReceivedResult(emitted) == emitted[1]

JudgeRecv ==
    /\ judge.pc = "connected"
    /\ Len(subs[judge.sub].emitted) >= 1
    /\ judge' = [judge EXCEPT
                     !.solution_result = ReceivedResult(subs[judge.sub].emitted),
                     !.pc = "got"]
    /\ UNCHANGED <<active_solutions, accepted, tasks, ntasks, loop_owner, subs, store>>

\* judge_client.py lines 183-188: nothing arrived within the timeout.
JudgeRecvTimeout ==
    /\ judge.pc = "connected"
    /\ Len(subs[judge.sub].emitted) = 0
    /\ judge' = CaughtException([judge EXCEPT !.ws = "expired"], NoResultMsg)
    /\ UNCHANGED <<active_solutions, accepted, tasks, ntasks, loop_owner, subs, store>>

\* The elapsed wall times (ms) the Judge may measure itself (line 142).
ElapsedMs == {40, 1200}

\* judge.py lines 136-178: the snapshot is scored.  The short-circuit result
\* is returned at once (line 148); a rubric result goes on to
\* _store_results (line 181).
JudgeScore(elapsed) ==
    /\ judge.pc = "got"
    /\ LET short == ShortCircuits(judge.solution_result)
       IN  judge' = [judge EXCEPT
                !.result = Some(Evaluate(judge.spec[1], judge.solution_result,
                                         elapsed)),
                !.path = IF short THEN "short_circuit" ELSE "rubric",
                !.http = IF short THEN Some(200) ELSE None,
                !.pc = IF short THEN "done" ELSE "storing"]
    /\ UNCHANGED <<active_solutions, accepted, tasks, ntasks, loop_owner, subs, store>>

\* The transaction of _store_results (judge.py lines 298-336): the UPDATE
\* changes the episode's row if there is one, each INSERT appends a feedback
\* row.  Without the episode's row the UPDATE matches nothing and the first
\* INSERT violates the foreign key (db/core.py line 52): nothing is
\* committed.
StoreResults(db, id, result) ==
    IF db[id].exists
    THEN [db EXCEPT ![id].result = Some([success |-> result.success,
                                         score |-> result.score,
                                         metrics |-> result.metrics]),
                    ![id].feedback = @ \o result.feedback]
    ELSE db

\* A variant of StoreFault in which the database fault escapes.
StoreFaultRaises(j) ==
    [j EXCEPT !.result = None, !.raised = Some("database fault"),
              !.http = Some(500), !.pc = "done"]

\* judge.py lines 341-345: a fault of the database is logged and
\* swallowed; evaluate_solution goes on to return the result (line 183).
StoreFault(j) == [j EXCEPT !.http = Some(200), !.pc = "done"]

\* judge.py lines 181-183, the database did its work.
JudgeStore ==
    /\ judge.pc = "storing"
    /\ store' = StoreResults(store, judge.id, judge.result[1])
    /\ judge' = [judge EXCEPT !.http = Some(200), !.pc = "done",
                     !.stored = IF store[judge.id].exists THEN "yes" ELSE "no"]
    /\ UNCHANGED <<active_solutions, accepted, tasks, ntasks, loop_owner, subs>>

\* _store_results (judge.py lines 290-345) is handed the same JudgeResult a
\* second time, as when the delivery of a result is repeated.
JudgeStoreAgain ==
    /\ judge.pc = "done"
    /\ judge.stored = "yes"
    /\ store' = StoreResults(store, judge.id, judge.result[1])
    /\ judge' = [judge EXCEPT !.stored = "twice"]
    /\ UNCHANGED <<active_solutions, accepted, tasks, ntasks, loop_owner, subs>>

\* judge.py lines 181-183, the connection or a statement failed.
JudgeStoreFails ==
    /\ judge.pc = "storing"
    /\ judge' = StoreFault(judge)
    /\ UNCHANGED <<active_solutions, accepted, tasks, ntasks, loop_owner, subs, store>>

\* ---------------------------------------------------------- specification
Next ==
    \/ \E i \in Ids : RunSolution(i)
    \/ \E t \in TaskIds : CreateContainer(t)
    \/ \E t \in TaskIds : CreateContainerFails(t)
    \/ \E t \in TaskIds, res \in ContainerResults : ContainerExits(t, res)
    \/ \E t \in TaskIds, fault \in WaitFaults : ContainerWaitRaises(t, fault)
    \/ \E t \in TaskIds : RemoveContainer(t)
    \/ \E s \in SubIds, i \in Ids : WsAccept(s, i)
    \/ \E s \in SubIds : WsSendInitial(s)
    \/ \E s \in SubIds : WsCheck(s)
    \/ \E s \in SubIds : WsSendFails(s)
    \/ \E i \in Ids, t \in TaskNames : UnknownTask(i, t)
    \/ \E i \in Ids, t \in TaskNames : JudgePost(i, t)
    \/ \E i \in Ids, t \in TaskNames : JudgePostFails(i, t)
    \/ \E s \in SubIds : JudgeWsConnect(s)
    \/ JudgeWsConnectFails
    \/ JudgeRecv
    \/ JudgeRecvTimeout
    \/ \E elapsed \in ElapsedMs : JudgeScore(elapsed)
    \/ JudgeStore
    \/ JudgeStoreFails

Spec == Init /\ [][Next]_vars


\* The runner alone, under arbitrary clients.
RunnerNext ==
    \/ \E i \in Ids : RunSolution(i)
    \/ \E t \in TaskIds : CreateContainer(t)
    \/ \E t \in TaskIds : CreateContainerFails(t)
    \/ \E t \in TaskIds, res \in ContainerResults : ContainerExits(t, res)
    \/ \E t \in TaskIds, fault \in WaitFaults : ContainerWaitRaises(t, fault)
    \/ \E t \in TaskIds : RemoveContainer(t)
    \/ \E s \in SubIds, i \in Ids : WsAccept(s, i)
    \/ \E s \in SubIds : WsSendInitial(s)
    \/ \E s \in SubIds : WsCheck(s)
    \/ \E s \in SubIds : WsSendFails(s)

RunnerSpec == Init /\ [][RunnerNext]_vars

\* A client subscribes to an id the runner tracks.
SubscribeTracked(s, i) ==
    /\ active_solutions[i].status # "absent"
    /\ WsAccept(s, i)

\* What the container hands back does not bear on whether the task goes
\* on: of the natural exits the clean one is kept here.
CleanExits == {res \in ContainerResults : res.exit_code = 0}

\* The steps of one execute_solution task, and of one websocket handler.
TaskStep(t) ==
    \/ CreateContainer(t)
    \/ CreateContainerFails(t)
    \/ \E res \in CleanExits : ContainerExits(t, res)
    \/ \E fault \in WaitFaults : ContainerWaitRaises(t, fault)
    \/ RemoveContainer(t)

HandlerStep(s) == WsSendInitial(s) \/ WsCheck(s)

\* The runner and subscribers that stay connected to tracked ids.
LiveRunnerNext ==
    \/ \E i \in Ids : RunSolution(i)
    \/ \E t \in TaskIds : CreateContainer(t)
    \/ \E t \in TaskIds : CreateContainerFails(t)
    \/ \E t \in TaskIds, res \in CleanExits : ContainerExits(t, res)
    \/ \E t \in TaskIds, fault \in WaitFaults : ContainerWaitRaises(t, fault)
    \/ \E t \in TaskIds : RemoveContainer(t)
    \/ \E s \in SubIds, i \in Ids : SubscribeTracked(s, i)
    \/ \E s \in SubIds : WsSendInitial(s)
    \/ \E s \in SubIds : WsCheck(s)

\* The scheduling the code relies on: the event loop runs every task that
\* is ready (execute_solution from create_task, line 51; a websocket handler
\* after its await), a blocking docker call comes back by returning or
\* raising, and the finally block runs.
RunnerFairness ==
    /\ \A t \in TaskIds : WF_vars(TaskStep(t))
    /\ \A s \in SubIds : WF_vars(HandlerStep(s))

LiveRunnerSpec == Init /\ [][LiveRunnerNext]_vars /\ RunnerFairness

\* The runner under arbitrary clients that also call Stop.
StopNext ==
    \/ RunnerNext
    \/ \E i \in Ids : StopSolution(i)

StopSpec == Init /\ [][StopNext]_vars

\* One evaluation by the Judge against a runner that has no other client.
JudgeNext ==
    \/ \E t \in TaskIds : CreateContainer(t)
    \/ \E t \in TaskIds : CreateContainerFails(t)
    \/ \E t \in TaskIds, res \in ContainerResults : ContainerExits(t, res)
    \/ \E t \in TaskIds, fault \in WaitFaults : ContainerWaitRaises(t, fault)
    \/ \E t \in TaskIds : RemoveContainer(t)
    \/ \E s \in SubIds : WsSendInitial(s)
    \/ \E s \in SubIds : WsCheck(s)
    \/ \E s \in SubIds : WsSendFails(s)
    \/ \E i \in Ids, t \in TaskNames : UnknownTask(i, t)
    \/ \E i \in Ids, t \in TaskNames : JudgePost(i, t)
    \/ \E i \in Ids, t \in TaskNames : JudgePostFails(i, t)
    \/ \E s \in SubIds : JudgeWsConnect(s)
    \/ JudgeWsConnectFails
    \/ JudgeRecv
    \/ JudgeRecvTimeout
    \/ \E elapsed \in ElapsedMs : JudgeScore(elapsed)
    \/ JudgeStore
    \/ JudgeStoreFails

JudgeSpec == Init /\ [][JudgeNext]_vars

\* SolutionRunnerClient._poll_solution_status against a status endpoint
\* that may answer anything.
PollNext ==
    \/ \E i \in Ids, t \in TaskNames : PollStart(i, t)
    \/ \E answer \in PollAnswers, latency \in Latencies :
           PollGetsResult(answer, latency)
    \/ \E answer \in PollAnswers, latency \in Latencies :
           PollSleeps(answer, latency)
    \/ \E latency \in Latencies : PollFails(latency)
    \/ PollTimesOut

PollSpec == Init /\ [][PollNext]_vars

\* ------------------------------------------------ scoring, all inputs
MaxRubric == 2

\* RubricItem (judge.py lines 35-38): any text, any float as weight.
Descriptions ==
    {"Correct output", "Time complexity", "PEP8 style", "Correct style",
     "Documentation"}
Weights == {-2, 4, 6}
RubricItems == [description : Descriptions, weight : Weights]
Rubrics == UNION {[1..n -> RubricItems] : n \in 0..MaxRubric}

\* The messages get_solution_result can hand to the scoring code: whatever
\* the websocket sent first.
Snapshots ==
    {NewRecord, NotFoundMsg, TimeoutResult,
     [Absent EXCEPT !.status = "error"],
     [Absent EXCEPT !.status = "error", !.error = Some("docker fault")],
     [Absent EXCEPT !.status = "completed", !.exit_code = Some(0),
                    !.logs = Some("sorted"), !.execution_time_ms = Some(50)],
     [Absent EXCEPT !.status = "completed", !.exit_code = Some(0),
                    !.logs = Some("sorted"), !.execution_time_ms = Some(300)],
     [Absent EXCEPT !.status = "completed", !.exit_code = Some(1),
                    !.logs = Some("traceback"),
                    !.execution_time_ms = Some(700)],
     [Absent EXCEPT !.status = "completed", !.exit_code = Some(1),
                    !.logs = Some("sorted"), !.execution_time_ms = Some(50)],
     [Absent EXCEPT !.status = "completed", !.exit_code = Some(0),
                    !.logs = Some("sorted"), !.execution_time_ms = Some(100)],
     [Absent EXCEPT !.status = "completed", !.exit_code = Some(0),
                    !.logs = Some("sorted"), !.execution_time_ms = Some(500)],
     [Absent EXCEPT !.status = "completed", !.exit_code = Some(0),
                    !.logs = Some("sorted"), !.execution_time_ms = Some(1000)],
     [Absent EXCEPT !.status = "completed", !.exit_code = Some(0),
                    !.logs = Some("sorted; Style Error"),
                    !.execution_time_ms = Some(1200)]}

\* TaskSpec.time_limit_sec (judge.py line 49).
TimeLimits == {2, 10}

\* evaluate_solution at line 136, for every specification and snapshot.
ScoreInit ==
    /\ active_solutions = [i \in Ids |-> Absent]
    /\ accepted = [i \in Ids |-> 0]
    /\ tasks = [t \in TaskIds |-> NoTask]
    /\ ntasks = 0
    /\ loop_owner = 0
    /\ subs = [s \in SubIds |-> NoSub]
    /\ store = InitialStore
    /\ \E i \in Ids, rubric \in Rubrics, snapshot \in Snapshots,
          limit \in TimeLimits :
           judge = [NoJudge EXCEPT
                        !.pc = "got", !.id = i, !.task_id = "sorting_001",
                        !.spec = Some([time_limit_sec |-> limit,
                                       rubric |-> rubric]),
                        !.solution_result = snapshot]

ScoreNext ==
    \/ \E elapsed \in ElapsedMs : JudgeScore(elapsed)
    \/ JudgeStore
    \/ JudgeStoreFails
    \/ JudgeStoreAgain

ScoreSpec == ScoreInit /\ [][ScoreNext]_vars


\* ================================================================ claims

\* C1: a Submit whose id is already tracked is rejected and leaves the
\* record alone, so of all the Submits carrying one id at most one is ever
\* answered "accepted".
C1_DuplicateSubmitRejected == \A i \in Ids : accepted[i] <= 1

\* C2: terminal states are absorbing: once the tracked status of an id is
\* completed, error or timeout, no step changes it.
C2_TerminalAbsorbing ==
    [][\A i \in Ids :
          IsTerminal(active_solutions[i].status)
              => active_solutions'[i].status = active_solutions[i].status]_vars

\* A step in which execution task t writes its terminal outcome.
TerminalWriteBy(t) ==
    /\ tasks[t].pc \in {"scheduled", "waiting"}
    /\ tasks'[t].pc \in {"cleanup", "done"}

\* C3: a terminal write wins exactly once: a terminal write by an execution
\* task on a record that is already terminal changes none of status,
\* exit_code, logs, execution_time_ms, error.
C3_FirstTerminalWriteWins ==
    [][\A t \in TaskIds :
          (/\ TerminalWriteBy(t)
           /\ IsTerminal(active_solutions[tasks[t].solution_id].status))
              => Outcome(active_solutions'[tasks[t].solution_id])
                     = Outcome(active_solutions[tasks[t].solution_id])]_vars

\* C4: the snapshot the Judge takes from the subscription as the outcome
\* and hands on to scoring is a terminal one.
C4_ScoredSnapshotTerminal ==
    judge.pc = "got" => IsTerminal(judge.solution_result.status)

\* C5: a subscription whose submission is already terminal at subscribe
\* time has emitted exactly one snapshot when it closes.
C5_TerminalSubscribeEmitsOnce ==
    \A s \in SubIds :
        (/\ subs[s].pc = "closed"
         /\ IsTerminal(subs[s].emitted[1].status))
            => Len(subs[s].emitted) = 1

\* C6: a subscription whose submission is tracked and non-terminal at
\* subscribe time emits that snapshot first, then nothing while the state is
\* non-terminal, then one terminal snapshot, and closes: at most two
\* snapshots, the second terminal, none after it, and a stream that closed
\* has emitted both.
C6_NonTerminalSubscribe ==
    \A s \in SubIds :
        (/\ Len(subs[s].emitted) >= 1
         /\ subs[s].emitted[1].status = "running")
            => /\ Len(subs[s].emitted) <= 2
               /\ Len(subs[s].emitted) = 2
                      => /\ IsTerminal(subs[s].emitted[2].status)
                         /\ subs[s].pc = "closed"
               /\ subs[s].pc = "closed" => Len(subs[s].emitted) = 2

C6_Witness ==
    \E s \in SubIds :
        /\ subs[s].pc = "closed"
        /\ Len(subs[s].emitted) = 2
        /\ subs[s].emitted[1].status = "running"
        /\ IsTerminal(subs[s].emitted[2].status)

\* C7: when the wait exceeds time_limit_sec the record written is
\* status "timeout" (not "error") with error "execution timed out".
C7_TimeoutRecordedAsTimedOut ==
    \A t \in TaskIds :
        (tasks[t].pc = "cleanup" /\ tasks[t].path = "timeout")
            => /\ active_solutions[tasks[t].solution_id].status = "timeout"
               /\ active_solutions[tasks[t].solution_id].error
                      = Some("execution timed out")

\* C8: every container that was created is torn down exactly once, on the
\* completion, fault and timeout paths alike: never more than one remove,
\* none before the outcome is recorded, and exactly one when the task ends.
C8_TeardownExactlyOnce ==
    \A t \in TaskIds :
        /\ tasks[t].removes <= 1
        /\ tasks[t].pc \in {"unborn", "scheduled", "waiting", "cleanup"}
               => tasks[t].removes = 0
        /\ (tasks[t].pc = "done" /\ tasks[t].created) => tasks[t].removes = 1
        /\ ~tasks[t].created => tasks[t].removes = 0

C8_Witness ==
    \E t, u \in TaskIds :
        /\ tasks[t].pc = "done" /\ tasks[t].path = "timeout"
        /\ tasks[t].created /\ tasks[t].removes = 1
        /\ tasks[u].pc = "done" /\ tasks[u].path = "completed"
        /\ tasks[u].created /\ tasks[u].removes = 1

\* C9: while one execution task waits for its runtime, the runner can still
\* accept a Submit for another id, serve a subscriber its snapshot, and
\* start another submission's execution.
C9_WaitingTaskBlocksNobody ==
    \A t \in TaskIds :
        tasks[t].pc = "waiting"
            => /\ ntasks < MaxSubmits
                      => \E i \in Ids \ {tasks[t].solution_id} :
                             ENABLED RunSolution(i)
               /\ \A s \in SubIds :
                      subs[s].pc = "accepted" => ENABLED WsSendInitial(s)
               /\ \A u \in TaskIds :
                      NextToRun(u) => ENABLED CreateContainer(u)

\* C10: SolutionRunnerClient.run_solution returns the immediate submit
\* reply only if it carries a terminal status; a non-terminal reply is
\* never what it returns.
C10_RunReturnsOnlyTerminalReply ==
    judge.pc = "ran" => IsTerminal(judge.run_result.status)

\* C11: when the stream to the runner cannot be opened, the Judge goes on
\* to poll the snapshot; the step on which the connection fails does not
\* end the evaluation.
C11_UnavailableStreamFallsBackToPoll ==
    [][(judge.ws # "unavailable" /\ judge'.ws = "unavailable")
           => judge'.pc = "polling"]_vars

\* The waits of the policy {initial 500 ms, multiplier 1.5, cap 2 s}, in
\* microseconds: 500000, 750000, 1125000, 1687500, 2000000, ...
RECURSIVE PolicyWait(_)
PolicyWait(k) ==
    IF k = 1 THEN 500000
    ELSE IF (3 * PolicyWait(k - 1)) \div 2 > 2000000 THEN 2000000
    ELSE (3 * PolicyWait(k - 1)) \div 2

\* C12: in poll mode the k-th wait between polls is the k-th wait of the
\* backoff policy, the first being 500 ms.
C12_PollWaitsFollowBackoff ==
    \A k \in 1..Len(judge.waits) : judge.waits[k] = PolicyWait(k)

\* C13: when the Judge's wait ran out without a terminal snapshot, in
\* subscribe mode as in poll mode, it has issued Stop once and its outcome
\* is the timeout.
C13_DeadlineStopsOnceAndTimesOut ==
    (judge.ws = "expired" \/ judge.run_result = TimeoutResult)
        => /\ judge.stops = 1
           /\ judge.ws = "expired"
                  => judge.result = Some(ErrorResult(TimeoutResult.error[1]))

\* C14: in poll mode the transport error is returned only once the deadline
\* has passed; a failed attempt before it is retried.
C14_TransportFailureRetriedUntilDeadline ==
    (judge.pc = "ran" /\ judge.run_result = TransportError)
        => judge.clock >= PollDeadline(judge.spec[1].time_limit_sec)

\* C15: a snapshot whose status is error or timeout is scored without the
\* rubric: success false, score 0, metrics holding the error message only,
\* and the one feedback item of the Judge about the execution.
C15_ErrorShortCircuits ==
    (judge.result # None /\ judge.solution_result.status \in {"error", "timeout"})
        => LET message == IF judge.solution_result.error = None
                          THEN "Unknown error"
                          ELSE judge.solution_result.error[1]
               result == judge.result[1]
           IN  /\ result.success = FALSE
               /\ result.score.num = 0
               /\ result.metrics = [exit_code |-> None, metric_value |-> None,
                                    error |-> Some(message)]
               /\ result.feedback =
                      <<[source |-> "judge", rating |-> 0,
                         rationale |-> <<"Execution error: ", message>>,
                         rubric_section |-> "execution"]>>

C15_Witness ==
    /\ judge.result # None
    /\ judge.solution_result = TimeoutResult
    /\ Len(judge.spec[1].rubric) = MaxRubric

\* C16: an evaluation that names a task without a specification is
\* rejected with HTTP 400; nothing was submitted to the runner and nothing
\* was stored.
C16_UnknownTaskRejected ==
    (judge.task_id # "none" /\ judge.task_id \notin DOMAIN task_specs)
        => /\ judge.pc = "rejected"
           /\ judge.raised = Some(NotFoundSpec)
           /\ judge.http = Some(400)
           /\ judge.result = None
           /\ ntasks = 0
           /\ \A i \in Ids : active_solutions[i] = Absent /\ accepted[i] = 0
           /\ store = InitialStore

C16_Witness == judge.pc = "rejected" /\ judge.task_id = "unknown_001"

RECURSIVE SumWeights(_, _)
SumWeights(rubric, k) ==
    IF k = 0 THEN 0 ELSE SumWeights(rubric, k - 1) + rubric[k].weight

\* C17: for a rubric whose weights sum to more than 0 the aggregate score
\* is at least 0 and at most 1.
C17_ScoreInUnitInterval ==
    LET rubric == judge.spec[1].rubric
    IN  (judge.result # None /\ SumWeights(rubric, Len(rubric)) > 0)
            => /\ 0 <= judge.result[1].score.num
               /\ judge.result[1].score.num <= judge.result[1].score.den

\* The sum over the rubric items 1..k of item score times weight.
RECURSIVE SumWeighted(_, _, _)
SumWeighted(rubric, k, snapshot) ==
    IF k = 0 THEN 0
    ELSE SumWeighted(rubric, k - 1, snapshot)
             + rubric[k].weight
                   * ScoreRubricItem(rubric[k], snapshot.logs[1],
                                     snapshot.exit_code[1],
                                     snapshot.execution_time_ms[1])

\* C18: for a completed snapshot (and a rubric whose weights sum to more
\* than 0, as every TaskSpec's do) the aggregate score is the weighted mean
\* of the item scores: score * sum(weight) = sum(item score * weight).
\* Item scores are in tenths, hence the factor 10.
C18_ScoreIsWeightedMean ==
    LET rubric == judge.spec[1].rubric
        n == Len(rubric)
    IN  (/\ judge.result # None
         /\ judge.solution_result.status = "completed"
         /\ SumWeights(rubric, n) > 0)
            => judge.result[1].score.num * 10 * SumWeights(rubric, n)
                   = SumWeighted(rubric, n, judge.solution_result)
                         * judge.result[1].score.den

\* Scenario B: weights 0.6 and 0.4, exit code 1, 700 ms: 0.16.
C18_Witness ==
    /\ judge.result # None
    /\ judge.spec[1].rubric = task_specs["sorting_001"].rubric
    /\ judge.solution_result.exit_code = Some(1)
    /\ judge.solution_result.execution_time_ms = Some(700)
    /\ judge.result[1].score.num * 100 = 16 * judge.result[1].score.den
    /\ judge.result[1].feedback[1].rating = 0
    /\ judge.result[1].feedback[2].rating = 4

\* C19: a result of the rubric evaluation has success exactly when its
\* score is at least 0.6.
C19_SuccessIffScoreAtLeastThreshold ==
    (judge.result # None /\ judge.path = "rubric")
        => (judge.result[1].success
                <=> 10 * judge.result[1].score.num
                        >= 6 * judge.result[1].score.den)

\* A score of exactly 0.6 (item scores 0.7 and 0.5, equal weights) passes.
C19_Witness ==
    /\ judge.result # None
    /\ judge.path = "rubric"
    /\ 10 * judge.result[1].score.num = 6 * judge.result[1].score.den
    /\ judge.result[1].success

\* A step of the evaluation that depends on the Judge alone.
JudgeStep ==
    \/ JudgeWsConnectFails
    \/ JudgeRecv
    \/ JudgeRecvTimeout
    \/ \E elapsed \in ElapsedMs : JudgeScore(elapsed)
    \/ JudgeStore
    \/ JudgeStoreFails

\* C20: an evaluation of a task that has a specification never raises: when
\* it is over it has returned a JudgeResult (HTTP 200), whatever failed on
\* the way, and until then it can always take a step.
C20_EveryEvaluationYieldsResult ==
    /\ judge.raised # None => Lookup(judge.task_id) = None
    /\ judge.pc = "done"
           => /\ judge.result # None
              /\ judge.http = Some(200)
              /\ judge.result[1].success \in BOOLEAN
              /\ judge.result[1].score.den > 0
    /\ judge.pc \in {"ran", "connected", "got", "storing"} => ENABLED JudgeStep

\* The database failed after a rubric evaluation and the result came back
\* all the same.
C20_Witness ==
    /\ judge.pc = "done"
    /\ judge.path = "rubric"
    /\ store[judge.id].exists
    /\ store[judge.id].result = None
    /\ judge.result # None

\* C21: storing the same JudgeResult for an episode a second time leaves
\* the store as the first time left it, result fields and feedback rows
\* alike.
C21_StoreIsIdempotent ==
    judge.stored = "twice"
        => store = StoreResults(InitialStore, judge.id, judge.result[1])

\* C22: a Stop on an id that is terminal or unknown changes nothing the
\* runner tracks and returns the id's current snapshot, the not-found
\* snapshot for an unknown id; it is never answered with an error of the
\* call itself.
C22_StopIsIdempotentNoOp ==
    [][\A i \in Ids :
           (/\ StopSolution(i)
            /\ \/ IsTerminal(active_solutions[i].status)
               \/ active_solutions[i].status = "absent")
               => /\ active_solutions' = active_solutions
                  /\ judge'.stop_reply =
                         IF active_solutions[i].status = "absent"
                         THEN NotFoundMsg
                         ELSE active_solutions[i]]_vars

\* C23: a submission whose execution task has not begun is tracked as
\* queued, not yet as running.
C23_QueuedBeforeRunning ==
    \A t \in TaskIds :
        tasks[t].pc = "scheduled"
            => active_solutions[tasks[t].solution_id].status # "running"

\* C24: the container of a submission posted with network_disabled = true
\* has no network.
C24_NetworkDisabledUnlessEnabled ==
    \A t \in TaskIds :
        (tasks[t].created /\ PostedBody(tasks[t].solution_id).network_disabled)
            => tasks[t].network = "none"

\* C25: once the evaluation of an existing episode has returned, the
\* episode's row holds the result and at least one feedback row is stored
\* for it.
C25_ReturnedResultIsStored ==
    (judge.pc = "done" /\ InitialStore[judge.id].exists)
        => /\ store[judge.id].result # None
           /\ Len(store[judge.id].feedback) >= 1

\* C26: the rating of a performance item follows the measured time alone:
\* below 100 ms 1.0, from 100 to below 500 ms 0.7, from 500 to below
\* 1000 ms 0.4, from 1000 ms on 0.1 (ratings in tenths).
C26_PerformanceBuckets ==
    (judge.result # None /\ judge.path = "rubric")
        => \A k \in 1..Len(judge.spec[1].rubric) :
               judge.spec[1].rubric[k].description = "Time complexity"
                   => LET ms == judge.result[1].metrics.metric_value[1]
                          rating == judge.result[1].feedback[k].rating
                      IN  /\ ms < 100 => rating = 10
                          /\ (100 <= ms /\ ms < 500) => rating = 7
                          /\ (500 <= ms /\ ms < 1000) => rating = 4
                          /\ 1000 <= ms => rating = 1

\* A run of exactly 100 ms falls into the second bucket, under the longer
\* time limit as under the shorter.
C26_Witness ==
    /\ judge.result # None
    /\ judge.path = "rubric"
    /\ judge.spec[1].time_limit_sec = 10
    /\ judge.result[1].metrics.metric_value = Some(100)
    /\ Len(judge.spec[1].rubric) >= 1
    /\ judge.spec[1].rubric[1].description = "Time complexity"
    /\ judge.result[1].feedback[1].rating = 7

\* C27: the result of scoring a completed snapshot has one feedback item
\* per rubric item, in the rubric's order, each rated with its item's score.
C27_FeedbackFollowsRubric ==
    (/\ judge.result # None
     /\ judge.solution_result.status = "completed")
        => LET rubric == judge.spec[1].rubric
               feedback == judge.result[1].feedback
               snapshot == judge.solution_result
           IN  /\ Len(feedback) = Len(rubric)
               /\ \A k \in 1..Len(rubric) :
                      /\ feedback[k].rubric_section = rubric[k].description
                      /\ feedback[k].rating =
                             ScoreRubricItem(rubric[k], snapshot.logs[1],
                                             snapshot.exit_code[1],
                                             snapshot.execution_time_ms[1])

\* Two items with different descriptions and different scores.
C27_Witness ==
    /\ judge.result # None
    /\ judge.solution_result.status = "completed"
    /\ Len(judge.spec[1].rubric) = 2
    /\ judge.spec[1].rubric[1].description = "Time complexity"
    /\ judge.spec[1].rubric[2].description = "Correct output"
    /\ judge.result[1].feedback[1].rating = 4
    /\ judge.result[1].feedback[2].rating = 0

\* C28, as claimed: a result with success true comes from an execution
\* whose exit code is 0.
C28_SuccessOnlyForExitZero ==
    (judge.result # None /\ judge.result[1].success)
        => judge.solution_result.exit_code = Some(0)

\* C28, amended: a result with success true comes from an execution whose
\* exit code is 0, or from a rubric that has an item other than a
\* correctness item; a rubric of correctness items alone never passes an
\* execution with another exit code, or with none.
C28_SuccessNeedsExitZeroOrOtherItems ==
    (judge.result # None /\ judge.result[1].success)
        => \/ judge.solution_result.exit_code = Some(0)
           \/ \E k \in 1..Len(judge.spec[1].rubric) :
                  judge.spec[1].rubric[k].description
                      \notin {"Correct output", "Correct style"}

\* Correctness items alone, exit code 1, the marker in the logs: not passed.
C28_Witness ==
    /\ judge.result # None
    /\ judge.path = "rubric"
    /\ Len(judge.spec[1].rubric) = 2
    /\ \A k \in 1..2 :
           /\ judge.spec[1].rubric[k].description
                  \in {"Correct output", "Correct style"}
           /\ judge.spec[1].rubric[k].weight > 0
    /\ judge.solution_result.exit_code = Some(1)
    /\ judge.solution_result.logs = Some("sorted")
    /\ ~judge.result[1].success

\* C29: when the submit call failed, or the subscription said not_found,
\* the result is a failure with score 0 and the rubric was not evaluated.
C29_NeverExecutedScoresZero ==
    (/\ judge.pc = "done"
     /\ \/ judge.run_result.status = "error"
        \/ judge.solution_result.status = "not_found")
        => /\ judge.result # None
           /\ ~judge.result[1].success
           /\ judge.result[1].score.num = 0
           /\ judge.path # "rubric"

\* C30: a record that says "running" comes to a terminal status, also when
\* the container cannot be created, and a subscriber in its wait loop comes
\* to the end of its stream.
C30_RunningLeadsToTerminal ==
    /\ \A i \in Ids :
           (active_solutions[i].status = "running")
               ~> IsTerminal(active_solutions[i].status)
    /\ \A s \in SubIds :
           (subs[s].pc = "loop") ~> (subs[s].pc \in {"closed", "aborted"})

\* A container could not be created, and a subscriber that had seen
\* "running" was sent the error and let go.
C30_Witness ==
    \E s \in SubIds, t \in TaskIds :
        /\ tasks[t].path = "start_failed"
        /\ subs[s].solution_id = tasks[t].solution_id
        /\ subs[s].pc = "closed"
        /\ Len(subs[s].emitted) = 2
        /\ subs[s].emitted[1].status = "running"
        /\ subs[s].emitted[2].status = "error"

====
